---- MODULE Spec2Model ----
(***************************************************************************)
(* A model of csim.c, the LRU cache simulator: the globals set from the    *)
(* command line (s, E, b), the derived globals (S, B), the cache (an array *)
(* of S sets of E lines), the three counters, and the operations           *)
(* initCache, accessData and replayTrace.                                  *)
(*                                                                         *)
(* Representation of mem_addr_t (unsigned long long, 64 bits): the set of  *)
(* the positions of its 1 bits, a subset of 0..63.  {} is 0, {0} is 1,     *)
(* {2} is 4, {0, 2} is 5.  TLC's integers are 32 bits wide, so a 64-bit    *)
(* value cannot be a TLC integer; with the bit set, the unsigned division  *)
(* and remainder of lines 123-124 are computed exactly and at full width.  *)
(* The C type int is a TLC integer in IntMin..IntMax.                      *)
(***************************************************************************)
EXTENDS Integers, Sequences, FiniteSets, TLC

VARIABLES
    s,          \* int s: set index bits (line 33)
    E,          \* int E: associativity (line 34)
    b,          \* int b: block offset bits (line 35)
    S,          \* int S: number of sets (line 41)
    B,          \* int B: block size (line 40)
    cache,      \* cache_t cache (line 68): set index -> line index -> line
    hit_cnt,    \* line 44
    miss_cnt,   \* line 45
    evict_cnt,  \* line 46
    decoded,    \* the locals addr, addrTag, setNum of the latest accessData
    alive,      \* FALSE once the process was killed by a division by zero
    replica,    \* a second, independent run of the program on the same input
    log,        \* history: one entry per accessData call of the run
    nread,      \* history: how many lines of each kind replayTrace has read
    lastLine    \* history: the latest line replayTrace has read

vars == <<s, E, b, S, B, cache, hit_cnt, miss_cnt, evict_cnt, decoded, alive,
          replica, log, nread, lastLine>>

-----------------------------------------------------------------------------
(* Bounds of the model *)

MaxE == 2       \* E ranges over 1..MaxE
MaxCalls == 6   \* accessData calls of one run of SpecAccess
MaxLines == 4   \* trace lines of one run of Spec

-----------------------------------------------------------------------------
(* 32-bit int and 64-bit unsigned arithmetic *)

IntMax == 2147483647
IntMin == -IntMax - 1

\* The mem_addr_t whose value is the natural number n (n <= IntMax).
U64(n) == {i \in 0..30 : (n \div (2^i)) % 2 = 1}

\* The value of a mem_addr_t below 2^31 as a number.
RECURSIVE ValOf(_)
ValOf(a) ==
    IF a = {} THEN 0
    ELSE LET i == CHOOSE x \in a : TRUE IN (2^i) + ValOf(a \ {i})

\* Conversion of an int to unsigned long long (sign extension: the value
\* modulo 2^64), as the usual arithmetic conversions do to the int divisor
\* of lines 123 and 124.
IntToU64(n) ==
    IF n >= 0 THEN U64(n)
    ELSE U64(n - IntMin) \cup (31..63)

\* a >= d on 64-bit unsigned values.
GeU64(a, d) ==
    \/ a = d
    \/ LET diff == (a \ d) \cup (d \ a)
           top  == CHOOSE x \in diff : \A y \in diff : y <= x
       IN  top \in a

\* a >> k
ShrU64(a, k) == {i - k : i \in {j \in a : j >= k}}

\* The outcomes of the unsigned division a / d.  The divisors that arise
\* here are 0, a power of two, and a value of at least 2^63 (a negative int
\* converted); the quotient by the last is 0 or 1.  A division by zero is
\* undefined: the process is killed by SIGFPE where the divide instruction
\* traps, and the quotient is 0 where it does not.
DivU64(a, d) ==
    IF d = {} THEN {[trap |-> TRUE, q |-> {}], [trap |-> FALSE, q |-> {}]}
    ELSE IF Cardinality(d) = 1
         THEN {[trap |-> FALSE, q |-> ShrU64(a, CHOOSE k \in d : TRUE)]}
         ELSE {[trap |-> FALSE, q |-> IF GeU64(a, d) THEN {0} ELSE {}]}

\* a % d for d a power of two.
ModU64(a, d) == {i \in a : i < (CHOOSE k \in d : TRUE)}

\* x << n on int, for the operands whose result fits (n <= 29 for x = 2).
IntShl(x, n) == x * (2^n)

\* The exponent of a power of two.
Log2(x) == CHOOSE k \in 0..30 : 2^k = x

\* The outcomes of the int product x * y of two powers of two, converted to
\* unsigned long long.  A product above IntMax is a signed overflow, which is
\* undefined: the multiply instruction wraps modulo 2^32 (2^31 becomes
\* INT_MIN, 2^32 and above become 0), and a compiler that relies on the
\* absence of overflow may as well keep the exact product.
IntMulToU64(x, y) ==
    IF x <= IntMax \div y
    THEN {IntToU64(x * y)}
    ELSE LET e == Log2(x) + Log2(y)
         IN  {IF e = 31 THEN IntToU64(IntMin) ELSE {}, {e}}

-----------------------------------------------------------------------------
(* Lines 121-124 of accessData: the address decoding *)

\* Mutant of Decode: the set number taken from the address itself, the
\* division by B forgotten.
DecodeNoBlock(addr, s_, b_) ==
    LET S_ == IntShl(2, s_ - 1)
        B_ == IntShl(2, b_ - 1)
    IN  { [addr    |-> addr,
           trap    |-> t.trap,
           addrTag |-> t.q,
           setNum  |-> ModU64(addr, IntToU64(S_)) ]
          : t \in UNION {DivU64(addr, d) : d \in IntMulToU64(B_, S_)} }

\* The outcomes of decoding addr with s_ set index bits and b_ block offset
\* bits (1 <= s_, b_ <= 30, so that S and B themselves fit an int).
Decode(addr, s_, b_) ==
    LET S_ == IntShl(2, s_ - 1)
        B_ == IntShl(2, b_ - 1)
    IN  { [addr    |-> addr,
           trap    |-> t.trap,
           addrTag |-> t.q,
           setNum  |-> ModU64((CHOOSE r \in DivU64(addr, IntToU64(B_)) : TRUE).q,
                              IntToU64(S_)) ]
          : t \in UNION {DivU64(addr, d) : d \in IntMulToU64(B_, S_)} }

-----------------------------------------------------------------------------
(* initCache, lines 76-97 *)

\* Mutant of initCache: line 94 forgotten, so count keeps whatever malloc
\* returned.
initCacheNoCount(s_, E_) ==
    { [S     |-> IntShl(2, s_ - 1),
       cache |-> c]
      : c \in [0..(IntShl(2, s_ - 1) - 1) ->
                 [0..(E_ - 1) ->
                    [valid : {"0"}, tag : {{}}, count : {0, 1}]]] }

\* The states initCache can leave S and the cache in: S = 2 << (s-1) sets of
\* E_ lines, every field of every line written (lines 92-94), so there is
\* exactly one.
initCache(s_, E_) ==
    { [S     |-> IntShl(2, s_ - 1),
       cache |-> [i \in 0..(IntShl(2, s_ - 1) - 1) |->
                    [j \in 0..(E_ - 1) |->
                        [valid |-> "0", tag |-> {}, count |-> 0]]]] }

-----------------------------------------------------------------------------
(* accessData, lines 117-194.  The loops are recursive operators over the  *)
(* loop index; `set` is the target set *(cache + setNum), and the record   *)
(* threaded through them holds the locals and the counters they write.     *)

\* Lines 129-138: the largest and the smallest count of the set.
RECURSIVE RecencyScan(_, _, _)
RecencyScan(set, n, r) ==
    IF n >= E THEN r
    ELSE RecencyScan(set, n + 1,
            [mostRecent  |-> IF r.mostRecent < set[n].count
                             THEN set[n].count ELSE r.mostRecent,
             leastRecent |-> IF r.leastRecent > set[n].count
                             THEN set[n].count ELSE r.leastRecent])

\* Lines 149-153 and 170-174: lower leastRecent to the smallest count.
RECURSIVE RefreshLeast(_, _, _)
RefreshLeast(set, t, leastRecent) ==
    IF t >= E THEN leastRecent
    ELSE RefreshLeast(set, t + 1,
            IF leastRecent > set[t].count THEN set[t].count ELSE leastRecent)

\* Mutant of HitLoop: line 146 forgotten, a hit leaves the count as it was.
RECURSIVE HitLoopNoTouch(_, _, _)
HitLoopNoTouch(l, i, addrTag) ==
    IF i >= E THEN l
    ELSE IF l.set[i].tag = addrTag /\ l.set[i].valid = "1"
         THEN HitLoopNoTouch([l EXCEPT !.hit_cnt = l.hit_cnt + 1,
                                       !.found = 1,
                                       !.mostRecent = l.mostRecent + 1,
                                       !.leastRecent =
                                           RefreshLeast(l.set, 0, l.leastRecent + 1)],
                             i + 1, addrTag)
         ELSE HitLoopNoTouch(l, i + 1, addrTag)

\* Mutant of HitLoop: the loop stops after line 0 (a break at the end of its
\* body), so a tag held by a later line is not found.
HitLoopFirstOnly(l, i, addrTag) ==
    IF i >= 1 THEN l
    ELSE IF l.set[i].tag = addrTag /\ l.set[i].valid = "1"
         THEN LET set2 == [l.set EXCEPT ![i].count = l.mostRecent + 1]
              IN  [l EXCEPT !.set = set2,
                            !.hit_cnt = l.hit_cnt + 1,
                            !.found = 1,
                            !.mostRecent = l.mostRecent + 1,
                            !.leastRecent =
                                RefreshLeast(set2, 0, l.leastRecent + 1)]
         ELSE l

\* Mutant of HitLoop: line 146 without the + 1, the line hit gets the count
\* of the most recent line.
RECURSIVE HitLoopStale(_, _, _)
HitLoopStale(l, i, addrTag) ==
    IF i >= E THEN l
    ELSE IF l.set[i].tag = addrTag /\ l.set[i].valid = "1"
         THEN LET set2 == [l.set EXCEPT ![i].count = l.mostRecent]
              IN  HitLoopStale([l EXCEPT !.set = set2,
                                    !.hit_cnt = l.hit_cnt + 1,
                                    !.found = 1,
                                    !.mostRecent = l.mostRecent + 1,
                                    !.leastRecent =
                                        RefreshLeast(set2, 0, l.leastRecent + 1)],
                          i + 1, addrTag)
         ELSE HitLoopStale(l, i + 1, addrTag)

\* Mutant of HitLoop: the test of the valid flag forgotten.
RECURSIVE HitLoopNoValid(_, _, _)
HitLoopNoValid(l, i, addrTag) ==
    IF i >= E THEN l
    ELSE IF l.set[i].tag = addrTag
         THEN LET set2 == [l.set EXCEPT ![i].count = l.mostRecent + 1]
              IN  HitLoopNoValid([l EXCEPT !.set = set2,
                                    !.hit_cnt = l.hit_cnt + 1,
                                    !.found = 1,
                                    !.mostRecent = l.mostRecent + 1,
                                    !.leastRecent =
                                        RefreshLeast(set2, 0, l.leastRecent + 1)],
                          i + 1, addrTag)
         ELSE HitLoopNoValid(l, i + 1, addrTag)

\* Lines 141-155: the hit loop.  It has no break: every valid line with the
\* tag counts a hit.
RECURSIVE HitLoop(_, _, _)
HitLoop(l, i, addrTag) ==
    IF i >= E THEN l
    ELSE IF l.set[i].tag = addrTag /\ l.set[i].valid = "1"
         THEN LET set2 == [l.set EXCEPT ![i].count = l.mostRecent + 1]
              IN  HitLoop([l EXCEPT !.set = set2,
                                    !.hit_cnt = l.hit_cnt + 1,
                                    !.found = 1,
                                    !.mostRecent = l.mostRecent + 1,
                                    !.leastRecent =
                                        RefreshLeast(set2, 0, l.leastRecent + 1)],
                          i + 1, addrTag)
         ELSE HitLoop(l, i + 1, addrTag)

\* Mutant of FillLoop: line 165 without the + 1, the installed line gets the
\* count of the most recent line.
RECURSIVE FillLoopStale(_, _, _)
FillLoopStale(l, j, addrTag) ==
    IF j >= E THEN l
    ELSE IF l.set[j].valid = "0"
         THEN LET set2 == [l.set EXCEPT ![j] = [valid |-> "1",
                                                tag   |-> addrTag,
                                                count |-> l.mostRecent]]
              IN  [l EXCEPT !.set = set2,
                            !.found = 1,
                            !.mostRecent = l.mostRecent + 1,
                            !.leastRecent =
                                RefreshLeast(set2, 0, l.leastRecent + 1)]
         ELSE FillLoopStale(l, j + 1, addrTag)

\* Mutant of FillLoop: the test of line 163 inverted (valid == '1').
RECURSIVE FillLoopInverted(_, _, _)
FillLoopInverted(l, j, addrTag) ==
    IF j >= E THEN l
    ELSE IF l.set[j].valid = "1"
         THEN LET set2 == [l.set EXCEPT ![j] = [valid |-> "1",
                                                tag   |-> addrTag,
                                                count |-> l.mostRecent + 1]]
              IN  [l EXCEPT !.set = set2,
                            !.found = 1,
                            !.mostRecent = l.mostRecent + 1,
                            !.leastRecent =
                                RefreshLeast(set2, 0, l.leastRecent + 1)]
         ELSE FillLoopInverted(l, j + 1, addrTag)

\* Mutant of FillLoop: line 168 forgotten, the installed line stays invalid.
RECURSIVE FillLoopNoValid(_, _, _)
FillLoopNoValid(l, j, addrTag) ==
    IF j >= E THEN l
    ELSE IF l.set[j].valid = "0"
         THEN LET set2 == [l.set EXCEPT ![j].tag = addrTag,
                                        ![j].count = l.mostRecent + 1]
              IN  [l EXCEPT !.set = set2,
                            !.found = 1,
                            !.mostRecent = l.mostRecent + 1,
                            !.leastRecent =
                                RefreshLeast(set2, 0, l.leastRecent + 1)]
         ELSE FillLoopNoValid(l, j + 1, addrTag)

\* Lines 162-177: install in the first line that is not valid, then break.
RECURSIVE FillLoop(_, _, _)
FillLoop(l, j, addrTag) ==
    IF j >= E THEN l
    ELSE IF l.set[j].valid = "0"
         THEN LET set2 == [l.set EXCEPT ![j] = [valid |-> "1",
                                                tag   |-> addrTag,
                                                count |-> l.mostRecent + 1]]
              IN  [l EXCEPT !.set = set2,
                            !.found = 1,
                            !.mostRecent = l.mostRecent + 1,
                            !.leastRecent =
                                RefreshLeast(set2, 0, l.leastRecent + 1)]
         ELSE FillLoop(l, j + 1, addrTag)

\* Mutant of EvictLoop: line 182 compares with mostRecent, the most recently
\* used line is the victim.
RECURSIVE EvictLoopMRU(_, _, _)
EvictLoopMRU(l, m, addrTag) ==
    IF m >= E THEN l
    ELSE IF l.set[m].count = l.mostRecent
         THEN [l EXCEPT !.set = [l.set EXCEPT ![m].tag = addrTag,
                                             ![m].count = l.mostRecent + 1],
                        !.mostRecent = l.mostRecent + 1,
                        !.leastRecent = l.leastRecent + 1,
                        !.evict_cnt = l.evict_cnt + 1,
                        !.found = 1]
         ELSE EvictLoopMRU(l, m + 1, addrTag)

\* Mutant of EvictLoop: line 183 forgotten, the victim keeps its tag.
RECURSIVE EvictLoopNoTag(_, _, _)
EvictLoopNoTag(l, m, addrTag) ==
    IF m >= E THEN l
    ELSE IF l.set[m].count = l.leastRecent
         THEN [l EXCEPT !.set = [l.set EXCEPT ![m].count = l.mostRecent + 1],
                        !.mostRecent = l.mostRecent + 1,
                        !.leastRecent = l.leastRecent + 1,
                        !.evict_cnt = l.evict_cnt + 1,
                        !.found = 1]
         ELSE EvictLoopNoTag(l, m + 1, addrTag)

\* Mutant of EvictLoop: line 187 forgotten, the eviction is not counted.
RECURSIVE EvictLoopNoCount(_, _, _)
EvictLoopNoCount(l, m, addrTag) ==
    IF m >= E THEN l
    ELSE IF l.set[m].count = l.leastRecent
         THEN [l EXCEPT !.set = [l.set EXCEPT ![m].tag = addrTag,
                                             ![m].count = l.mostRecent + 1],
                        !.mostRecent = l.mostRecent + 1,
                        !.leastRecent = l.leastRecent + 1,
                        !.found = 1]
         ELSE EvictLoopNoCount(l, m + 1, addrTag)

\* Lines 181-191: overwrite the first line whose count is leastRecent, then
\* break.
RECURSIVE EvictLoop(_, _, _)
EvictLoop(l, m, addrTag) ==
    IF m >= E THEN l
    ELSE IF l.set[m].count = l.leastRecent
         THEN [l EXCEPT !.set = [l.set EXCEPT ![m].tag = addrTag,
                                             ![m].count = l.mostRecent + 1],
                        !.mostRecent = l.mostRecent + 1,
                        !.leastRecent = l.leastRecent + 1,
                        !.evict_cnt = l.evict_cnt + 1,
                        !.found = 1]
         ELSE EvictLoop(l, m + 1, addrTag)

\* Mutant of MissBranch: miss_cnt++ moved out of if (!found), so a hit
\* counts a miss as well.
MissBranchAlways(l, addrTag) ==
    LET counted == [l EXCEPT !.miss_cnt = l.miss_cnt + 1]
    IN  IF l.found # 0 THEN counted
        ELSE LET filled == FillLoop(counted, 0, addrTag)
             IN  IF filled.found # 0 THEN filled
                 ELSE EvictLoop(filled, 0, addrTag)

\* Mutant of MissBranch: miss_cnt++ moved into the fill branch, so a miss
\* that evicts is not counted.
MissBranchCountOnFill(l, addrTag) ==
    IF l.found # 0 THEN l
    ELSE LET filled == FillLoop(l, 0, addrTag)
         IN  IF filled.found # 0
             THEN [filled EXCEPT !.miss_cnt = l.miss_cnt + 1]
             ELSE EvictLoop(filled, 0, addrTag)

\* Lines 158-193: the miss branch.
MissBranch(l, addrTag) ==
    IF l.found # 0 THEN l
    ELSE LET counted == [l EXCEPT !.miss_cnt = l.miss_cnt + 1]
             filled  == FillLoop(counted, 0, addrTag)
         IN  IF filled.found # 0 THEN filled
             ELSE EvictLoop(filled, 0, addrTag)

\* The locals and counters at line 140, before the hit loop.
EnterAccess(run, d) ==
    LET set == run.cache[ValOf(d.setNum)]
        r   == RecencyScan(set, 0, [mostRecent  |-> set[0].count,
                                    leastRecent |-> set[0].count])
    IN  [set         |-> set,
         found       |-> 0,
         mostRecent  |-> r.mostRecent,
         leastRecent |-> r.leastRecent,
         hit_cnt     |-> run.hit_cnt,
         miss_cnt    |-> run.miss_cnt,
         evict_cnt   |-> run.evict_cnt]

\* The locals, the target set and the counters at line 156, after the hit
\* loop.
HitBranch(run, d) == HitLoop(EnterAccess(run, d), 0, d.addrTag)

\* accessData on the run [cache, hit_cnt, miss_cnt, evict_cnt, alive], with d
\* the decoding of its address: the run after the call.
accessData(run, d) ==
    LET l == MissBranch(HitBranch(run, d), d.addrTag)
    IN  [run EXCEPT !.cache     = [run.cache EXCEPT ![ValOf(d.setNum)] = l.set],
                    !.hit_cnt   = l.hit_cnt,
                    !.miss_cnt  = l.miss_cnt,
                    !.evict_cnt = l.evict_cnt]

-----------------------------------------------------------------------------
(* The program as a state machine *)

\* The run of the program proper, as accessData takes it.
Run == [cache |-> cache, hit_cnt |-> hit_cnt, miss_cnt |-> miss_cnt,
        evict_cnt |-> evict_cnt, alive |-> alive]

\* One call accessData(addr) whose decoding came out as d: a trapping
\* division kills the process before anything is written.
Call(run, d) ==
    IF ~run.alive THEN run
    ELSE IF d.trap THEN [run EXCEPT !.alive = FALSE]
    ELSE accessData(run, d)

\* History: what one completed call did, read off the counters and the cache
\* before and after it.  victims are the tags of the valid lines overwritten;
\* mostRecent and leastRecent are the locals of the call after its hit loop.
LogEntry(before, after, d) ==
    [addr    |-> d.addr,
     setNum  |-> d.setNum,
     addrTag |-> d.addrTag,
     mostRecent  |-> HitBranch(before, d).mostRecent,
     leastRecent |-> HitBranch(before, d).leastRecent,
     hit     |-> after.hit_cnt - before.hit_cnt,
     miss    |-> after.miss_cnt - before.miss_cnt,
     evict   |-> after.evict_cnt - before.evict_cnt,
     victims |-> LET old == before.cache[ValOf(d.setNum)]
                     new == after.cache[ValOf(d.setNum)]
                 IN  {old[j].tag : j \in {k \in DOMAIN old :
                         old[k].valid = "1" /\ new[k].tag # old[k].tag}}]

Logged(before, after, d) ==
    IF after.alive /\ before.alive THEN <<LogEntry(before, after, d)>> ELSE <<>>

\* The configurations and inputs of the runs explored.
SetBits   == {1, 2}
BlockBits == {1}
Addrs      == {U64(0), U64(2), U64(4), U64(8)}
TraceAddrs == {U64(0), U64(1), U64(4)}

NoDecode == [addr |-> {}, trap |-> FALSE, addrTag |-> {}, setNum |-> {}]
NoLine   == [buf0 |-> "", buf1 |-> "", addr |-> {}]

\* The lines of a trace file: " L a,n", " S a,n", " M a,n", the instruction
\* line "I  a,n" (buf[1] is a blank) and a line with an unknown code.
Lines ==
    [buf0 : {" "}, buf1 : {"L", "S", "M"}, addr : TraceAddrs]
    \cup {[buf0 |-> "I", buf1 |-> " ", addr |-> U64(4)],
          [buf0 |-> " ", buf1 |-> "X", addr |-> U64(4)]}

\* main up to the call of replayTrace (lines 270-308): the globals are
\* zero, the command line sets s, E and b (each nonzero, line 301), and
\* initCache builds the cache.  The replica is a second run of the same.
Init ==
    /\ s \in SetBits
    /\ E \in 1..MaxE
    /\ b \in BlockBits
    /\ B = 0
    /\ \E c \in initCache(s, E) : S = c.S /\ cache = c.cache
    /\ hit_cnt = 0 /\ miss_cnt = 0 /\ evict_cnt = 0
    /\ decoded = NoDecode
    /\ alive = TRUE
    /\ \E c \in initCache(s, E) :
          replica = [cache |-> c.cache, hit_cnt |-> 0, miss_cnt |-> 0,
                     evict_cnt |-> 0, alive |-> TRUE]
    /\ log = <<>>
    /\ nread = [L |-> 0, S |-> 0, M |-> 0, other |-> 0]
    /\ lastLine = NoLine

\* The effect of the calls accessData(d[1].addr), ..., in this order, on the
\* program (decodings d) and on the replica (decodings d2).
RECURSIVE Calls(_, _)
Calls(run, ds) ==
    IF ds = <<>> THEN [run |-> run, log |-> <<>>]
    ELSE LET after == Call(run, Head(ds))
             rest  == Calls(after, Tail(ds))
         IN  [run |-> rest.run,
              log |-> Logged(run, after, Head(ds)) \o rest.log]

DoCalls(ds, ds2) ==
    LET r == Calls(Run, ds)
    IN  /\ S' = IntShl(2, s - 1)
        /\ B' = IntShl(2, b - 1)
        /\ cache' = r.run.cache
        /\ hit_cnt' = r.run.hit_cnt
        /\ miss_cnt' = r.run.miss_cnt
        /\ evict_cnt' = r.run.evict_cnt
        /\ alive' = r.run.alive
        /\ decoded' = ds[Len(ds)]
        /\ log' = log \o r.log
        /\ replica' = Calls(replica, ds2).run
        /\ UNCHANGED <<s, E, b>>

\* One direct call accessData(addr).
AccessCall(addr) ==
    /\ alive
    /\ Len(log) < MaxCalls
    /\ \E d \in Decode(addr, s, b), d2 \in Decode(addr, s, b) :
          DoCalls(<<d>>, <<d2>>)
    /\ UNCHANGED <<nread, lastLine>>

\* replayTrace, lines 214-233: one pass of the loop on a line of the file.
\* Lines 222-224: an S or L line.
ReplayLoadStore(line) ==
    /\ alive
    /\ nread.L + nread.S + nread.M + nread.other < MaxLines
    /\ line.buf1 \in {"S", "L"}
    /\ \E d \in Decode(line.addr, s, b), d2 \in Decode(line.addr, s, b) :
          DoCalls(<<d>>, <<d2>>)
    /\ nread' = [nread EXCEPT ![line.buf1] = @ + 1]
    /\ lastLine' = line

\* Mutant of ReplayModify: the second accessData of line 228 forgotten.
ReplayModifyOnce(line) ==
    /\ alive
    /\ nread.L + nread.S + nread.M + nread.other < MaxLines
    /\ line.buf1 = "M"
    /\ \E d \in Decode(line.addr, s, b), d2 \in Decode(line.addr, s, b) :
          DoCalls(<<d>>, <<d2>>)
    /\ nread' = [nread EXCEPT !.M = @ + 1]
    /\ lastLine' = line

\* Lines 226-229: an M line.
ReplayModify(line) ==
    /\ alive
    /\ nread.L + nread.S + nread.M + nread.other < MaxLines
    /\ line.buf1 = "M"
    /\ \E d \in Decode(line.addr, s, b), e \in Decode(line.addr, s, b),
          d2 \in Decode(line.addr, s, b), e2 \in Decode(line.addr, s, b) :
          DoCalls(<<d, e>>, <<d2, e2>>)
    /\ nread' = [nread EXCEPT !.M = @ + 1]
    /\ lastLine' = line

\* Line 215 false: any other line is skipped.
ReplaySkip(line) ==
    /\ alive
    /\ nread.L + nread.S + nread.M + nread.other < MaxLines
    /\ line.buf1 \notin {"S", "L", "M"}
    /\ nread' = [nread EXCEPT !.other = @ + 1]
    /\ lastLine' = line
    /\ UNCHANGED <<s, E, b, S, B, cache, hit_cnt, miss_cnt, evict_cnt,
                   decoded, alive, replica, log>>

Next ==
    \/ \E line \in Lines : ReplayLoadStore(line)
    \/ \E line \in Lines : ReplayModify(line)
    \/ \E line \in Lines : ReplaySkip(line)

\* The program replaying a trace file.
Spec == Init /\ [][Next]_vars

NextAccess == \E addr \in Addrs : AccessCall(addr)

\* accessData called any number of times on a freshly initialised cache.
SpecAccess == Init /\ [][NextAccess]_vars

\* The inputs of the decoding alone: configurations up to the widest whose
\* S and B fit an int, and addresses over the whole 64-bit range.
DecodeBits == {1, 2, 15, 16, 30}
WideAddrs  == {U64(0), U64(5), U64(1073741824), {31}, {0, 31}, {32}, {3, 40},
               {62}, {63}, 31..63, 0..63}

\* Before any call: the configuration is set and nothing was decoded.
InitDecode ==
    /\ s \in DecodeBits
    /\ b \in DecodeBits
    /\ E = 1
    /\ S = 0 /\ B = 0
    /\ cache = <<>>
    /\ hit_cnt = 0 /\ miss_cnt = 0 /\ evict_cnt = 0
    /\ decoded = NoDecode
    /\ alive = TRUE
    /\ replica = [cache |-> <<>>, hit_cnt |-> 0, miss_cnt |-> 0,
                  evict_cnt |-> 0, alive |-> TRUE]
    /\ log = <<>>
    /\ nread = [L |-> 0, S |-> 0, M |-> 0, other |-> 0]
    /\ lastLine = NoLine

\* Lines 121-124 alone, on one address.
DecodeCall(addr) ==
    /\ alive
    /\ \E d \in Decode(addr, s, b) :
          /\ decoded' = d
          /\ alive' = ~d.trap
    /\ S' = IntShl(2, s - 1)
    /\ B' = IntShl(2, b - 1)
    /\ UNCHANGED <<s, E, b, cache, hit_cnt, miss_cnt, evict_cnt, replica, log,
                   nread, lastLine>>

NextDecode == \E addr \in WideAddrs : DecodeCall(addr)

\* The address decoding of accessData applied to any address.
SpecDecode == InitDecode /\ [][NextDecode]_vars

-----------------------------------------------------------------------------
(* Properties *)

\* The calls of the run that targeted set k, in order.
SetLog(k) == SelectSeq(log, LAMBDA e : e.setNum = k)

\* The tags of the entries of a sequence of log entries.
TagsOf(es) == {es[i].addrTag : i \in 1..Len(es)}

SetNums == {U64(k) : k \in 0..(S - 1)}

IsHit(e)  == e.hit = 1 /\ e.miss = 0 /\ e.evict = 0
IsMiss(e) == e.hit = 0 /\ e.miss = 1 /\ e.evict \in {0, 1}

\* C1: at every point of a replay, hit_cnt + miss_cnt is the number of L
\* lines plus the number of S lines plus twice the number of M lines read so
\* far; and reading an I line or a line with any other code changes neither a
\* counter nor a cache line.
C1_AccessCount ==
    /\ [](hit_cnt + miss_cnt = nread.L + nread.S + 2 * nread.M)
    /\ [][nread'.other # nread.other
            => UNCHANGED <<cache, hit_cnt, miss_cnt, evict_cnt>>]_vars

\* C1 witness: a replay that has read an M line, an L line, an S line and an
\* I line, and counted four accesses.
C1_Witness ==
    /\ nread.M = 1 /\ nread.L = 1 /\ nread.S = 1 /\ nread.other = 1
    /\ hit_cnt + miss_cnt = 4
    /\ lastLine.buf0 = "I"

\* C2: after any sequence of accessData calls on a fresh cache,
\* evict_cnt <= miss_cnt.
C2_EvictLeMiss == evict_cnt <= miss_cnt

\* C2 witness: a run with several evictions and with hits.
C2_Witness == evict_cnt >= 2 /\ hit_cnt >= 1

\* The working set of every set fits: at most E distinct tags were accessed
\* in each set.
FitsAssociativity ==
    \A k \in SetNums : Cardinality(TagsOf(SetLog(k))) <= E

\* C3: as long as no set has been accessed with more than E distinct tags,
\* evict_cnt is 0.
C3_NoEvictionWhenFits == FitsAssociativity => evict_cnt = 0

\* C3 witness: a set accessed with exactly E = 2 distinct tags, four times or
\* more, with no third tag.
C3_Witness ==
    /\ E = 2
    /\ FitsAssociativity
    /\ \E k \in SetNums :
          Len(SetLog(k)) >= 4 /\ Cardinality(TagsOf(SetLog(k))) = 2

ModifyDone == lastLine.buf1 = "M" /\ alive /\ Len(log) >= 2

First  == log[Len(log) - 1]
Second == log[Len(log)]

\* C5 as stated: an M line at an address that no earlier call of the run
\* accessed yields a miss followed by a hit.
C5_Original ==
    (ModifyDone /\ \A i \in 1..(Len(log) - 2) : log[i].addr # lastLine.addr)
        => IsMiss(First) /\ IsHit(Second)

\* C5 amended: an M line at an address whose block, the (tag, set) pair it
\* decodes to, was decoded for no earlier call of the run yields exactly one
\* miss (with at most one eviction) followed by exactly one hit.
C5_NewBlockModify ==
    (ModifyDone /\ \A i \in 1..(Len(log) - 2) :
            <<log[i].setNum, log[i].addrTag>> # <<First.setNum, First.addrTag>>)
        => IsMiss(First) /\ IsHit(Second)

\* C5 witness: an M line on a new block, after other accesses, whose first
\* access evicted.
C5_Witness ==
    /\ ModifyDone /\ Len(log) >= 3
    /\ \A i \in 1..(Len(log) - 2) :
            <<log[i].setNum, log[i].addrTag>> # <<First.setNum, First.addrTag>>
    /\ First.evict = 1

\* C6: the two accesses of any M line are hit then hit, or miss (with at
\* most one eviction) then hit; the second never misses or evicts.
C6_ModifySecondHits ==
    ModifyDone => (IsHit(First) \/ IsMiss(First)) /\ IsHit(Second)

\* C6 witness: an M line whose two accesses both hit.
C6_Witness == ModifyDone /\ First.hit = 1 /\ Second.hit = 1

\* The addresses of the calls so far.
LogAddrs == [i \in 1..Len(log) |-> log[i].addr]

\* C7: with s = 1, E = 1, b = 1, the accesses 0x0, 0x2, 0x4 on a fresh cache
\* go to sets 0, 1, 0 and give 3 misses, 0 hits and 1 eviction, the eviction
\* being 0x4 overwriting the line 0x0 installed in set 0.
C7_Scenario ==
    (s = 1 /\ E = 1 /\ b = 1 /\ LogAddrs = <<U64(0), U64(2), U64(4)>>)
        => /\ log[1].setNum = U64(0) /\ log[2].setNum = U64(1)
           /\ log[3].setNum = U64(0)
           /\ hit_cnt = 0 /\ miss_cnt = 3 /\ evict_cnt = 1
           /\ log[1].evict = 0 /\ log[2].evict = 0 /\ log[3].evict = 1
           /\ log[3].victims = {log[1].addrTag}
           /\ cache[0][0].valid = "1" /\ cache[0][0].tag = log[3].addrTag

\* C7 witness: the scenario has run.
C7_Witness ==
    s = 1 /\ E = 1 /\ b = 1 /\ LogAddrs = <<U64(0), U64(2), U64(4)>>

\* The first three accesses of set k have tags A, B, A with A # B.
PatternABA(k) ==
    LET sl == SetLog(k)
    IN  /\ Len(sl) >= 3
        /\ sl[1].addrTag = sl[3].addrTag
        /\ sl[1].addrTag # sl[2].addrTag

\* C8: with E = 1, accesses with tags A, B, A to a fresh set give a miss
\* without eviction, a miss with eviction, a miss with eviction.
C8_DirectMappedABA ==
    \A k \in SetNums :
        LET sl == SetLog(k)
        IN  (E = 1 /\ PatternABA(k))
                => /\ IsMiss(sl[1]) /\ sl[1].evict = 0
                   /\ IsMiss(sl[2]) /\ sl[2].evict = 1
                   /\ IsMiss(sl[3]) /\ sl[3].evict = 1

\* C8 witness: a set of a direct-mapped cache has seen A, B, A, with
\* accesses to another set in between.
C8_Witness ==
    /\ E = 1
    /\ \E k \in SetNums : PatternABA(k) /\ Len(SetLog(k)) < Len(log)

\* C9: in a set accessed with at most E distinct tags, an access misses
\* (without eviction) when it is the first to its tag and hits otherwise; so
\* with E = 2 the tags A, B, A, B, A, B give miss, miss, hit, hit, hit, hit.
C9_WarmThenHit ==
    \A k \in SetNums :
        LET sl == SetLog(k)
        IN  Cardinality(TagsOf(sl)) <= E
                => \A i \in 1..Len(sl) :
                      IF \E j \in 1..(i - 1) : sl[j].addrTag = sl[i].addrTag
                      THEN IsHit(sl[i])
                      ELSE IsMiss(sl[i]) /\ sl[i].evict = 0

\* C9 witness: E = 2 and a set accessed with tags A, B, A, B, A, B.
C9_Witness ==
    /\ E = 2
    /\ \E k \in SetNums :
          LET sl == SetLog(k)
          IN  /\ Len(sl) = 6
              /\ sl[1].addrTag # sl[2].addrTag
              /\ \A i \in 3..6 : sl[i].addrTag = sl[i - 2].addrTag
              /\ evict_cnt = 0 /\ hit_cnt = 4 /\ miss_cnt = 2

\* The decoding of the specification, on the bits of the address: the block
\* number is A / 2^b, the set index its low s bits, the tag the rest.
BlockOf(a)  == ShrU64(a, b)
RefSet(a)   == {i \in BlockOf(a) : i < s}
RefTag(a)   == ShrU64(BlockOf(a), s)

\* C10: for every 64-bit address and every s >= 1, b >= 1, accessData
\* decodes setIndex = floor(A / B) mod S and tag = floor(floor(A / B) / S),
\* so two addresses get the same (tag, setIndex) exactly when they lie in the
\* same block.
C10_DecodeAsSpecified ==
    B # 0 =>
        /\ ~decoded.trap
        /\ decoded.setNum = RefSet(decoded.addr)
        /\ decoded.addrTag = RefTag(decoded.addr)
        /\ \A a2 \in WideAddrs : \A d2 \in Decode(a2, s, b) :
              (decoded.addrTag = d2.addrTag /\ decoded.setNum = d2.setNum)
                  <=> BlockOf(decoded.addr) = BlockOf(a2)

-----------------------------------------------------------------------------
(* Properties of one accessData call, as steps of SpecAccess: a step that  *)
(* lengthens the log is one completed call, on the set TargetSet.          *)

OneCall   == Len(log') = Len(log) + 1
TargetSet == ValOf(decoded'.setNum)
OldSet    == cache[TargetSet]
NewSet    == cache'[TargetSet]
LineIdx   == 0..(E - 1)

\* C11: a call increments exactly one of hit_cnt and miss_cnt, by 1;
\* increments evict_cnt by 0 or 1, by 1 only together with miss_cnt; and
\* leaves every line of every set but the target set unchanged.
C11_CallEffect ==
    [][OneCall =>
        /\ \/ hit_cnt' = hit_cnt + 1 /\ miss_cnt' = miss_cnt
           \/ hit_cnt' = hit_cnt /\ miss_cnt' = miss_cnt + 1
        /\ \/ evict_cnt' = evict_cnt
           \/ evict_cnt' = evict_cnt + 1 /\ miss_cnt' = miss_cnt + 1
        /\ \A k \in DOMAIN cache : k # TargetSet => cache'[k] = cache[k]
        /\ DOMAIN cache' = DOMAIN cache
      ]_vars

\* C11 witness: with four sets, calls have hit, missed and evicted, and two
\* sets or more hold valid lines.
C11_Witness ==
    /\ s = 2
    /\ hit_cnt >= 1 /\ evict_cnt >= 1
    /\ Cardinality({k \in DOMAIN cache : cache[k][0].valid = "1"}) >= 2

\* C12: on a hit, the count of the matching line becomes greater than the
\* count of every other line of the set; no valid flag and no tag changes,
\* and the count of no other line changes.
C12_HitEffect ==
    [][(OneCall /\ hit_cnt' # hit_cnt) =>
        \E j \in LineIdx :
            /\ OldSet[j].valid = "1" /\ OldSet[j].tag = decoded'.addrTag
            /\ \A m \in LineIdx \ {j} :
                  NewSet[j].count > NewSet[m].count /\ NewSet[m] = OldSet[m]
            /\ NewSet[j].valid = OldSet[j].valid
            /\ NewSet[j].tag = OldSet[j].tag
      ]_vars

\* C12 witness: a hit in a two-line set on the line that was the least
\* recently used: the call before it went to the other tag of the set.
C12_Witness ==
    /\ E = 2 /\ Len(log) >= 3
    /\ log[Len(log)].hit = 1
    /\ log[Len(log) - 1].setNum = log[Len(log)].setNum
    /\ log[Len(log) - 1].addrTag # log[Len(log)].addrTag

\* The largest and the smallest count of the lines of a set.
MaxCount(set) == CHOOSE c \in {set[j].count : j \in DOMAIN set} :
                    \A j \in DOMAIN set : set[j].count <= c
MinCount(set) == CHOOSE c \in {set[j].count : j \in DOMAIN set} :
                    \A j \in DOMAIN set : set[j].count >= c

\* C13: on a miss in a set with a line that is not valid, the tag goes to
\* the lowest such line, which becomes valid with a count above the largest
\* count the set had; evict_cnt and every other line stay as they were.
C13_FillEffect ==
    [][(OneCall /\ miss_cnt' # miss_cnt
          /\ \E j \in LineIdx : OldSet[j].valid = "0") =>
        LET j == CHOOSE x \in LineIdx :
                    /\ OldSet[x].valid = "0"
                    /\ \A y \in LineIdx : OldSet[y].valid = "0" => x <= y
        IN  /\ NewSet[j].valid = "1"
            /\ NewSet[j].tag = decoded'.addrTag
            /\ NewSet[j].count > MaxCount(OldSet)
            /\ evict_cnt' = evict_cnt
            /\ \A m \in LineIdx \ {j} : NewSet[m] = OldSet[m]
      ]_vars

\* C13 witness: the latest call missed and installed its tag in line 1 of a
\* set whose line 0 was valid already and had been hit since.
C13_Witness ==
    /\ E >= 2 /\ Len(log) >= 3
    /\ log[Len(log)].miss = 1 /\ log[Len(log)].evict = 0
    /\ LET set == cache[ValOf(log[Len(log)].setNum)]
       IN  /\ set[1].valid = "1" /\ set[1].tag = log[Len(log)].addrTag
           /\ set[1].count >= 3

\* The index in the log of the latest call to the tag in the set setNum.
LastAccess(setNum, tag) ==
    CHOOSE i \in 1..Len(log) :
        /\ log[i].setNum = setNum /\ log[i].addrTag = tag
        /\ \A i2 \in 1..Len(log) :
              (log[i2].setNum = setNum /\ log[i2].addrTag = tag) => i2 <= i

\* C14: a call evicts exactly when it misses in a set whose E lines are all
\* valid; the line overwritten is the one with the smallest count, which
\* holds the resident tag whose latest access is the oldest of the set; it
\* gets the new tag and the new largest count, and the other lines stay.
C14_EvictEffect ==
    [][OneCall =>
        /\ evict_cnt' # evict_cnt
              <=> (miss_cnt' # miss_cnt
                     /\ \A j \in LineIdx : OldSet[j].valid = "1")
        /\ evict_cnt' # evict_cnt =>
              \E m \in LineIdx :
                  /\ \A j \in LineIdx \ {m} :
                        /\ OldSet[m].count < OldSet[j].count
                        /\ LastAccess(decoded'.setNum, OldSet[m].tag)
                              < LastAccess(decoded'.setNum, OldSet[j].tag)
                        /\ NewSet[j] = OldSet[j]
                        /\ NewSet[m].count > NewSet[j].count
                  /\ NewSet[m] = [valid |-> "1",
                                  tag   |-> decoded'.addrTag,
                                  count |-> MaxCount(OldSet) + 1]
      ]_vars

\* C14 witness: the latest call evicted from a two-line set the line 1,
\* line 0 having been installed first and hit later.
C14_Witness ==
    /\ E = 2 /\ Len(log) >= 4
    /\ log[Len(log)].evict = 1
    /\ LET set == cache[ValOf(log[Len(log)].setNum)]
       IN  set[1].tag = log[Len(log)].addrTag /\ set[0].valid = "1"

-----------------------------------------------------------------------------
(* Invariants of the cache *)

\* C15: no set holds two valid lines with the same tag.
C15_NoDuplicateTag ==
    \A k \in DOMAIN cache : \A i \in LineIdx, j \in LineIdx :
        (i # j /\ cache[k][i].valid = "1" /\ cache[k][j].valid = "1")
            => cache[k][i].tag # cache[k][j].tag

\* C15 witness: a full two-line set after an eviction and a hit.
C15_Witness ==
    /\ E = 2 /\ evict_cnt >= 1 /\ hit_cnt >= 1
    /\ \E k \in DOMAIN cache : \A j \in LineIdx : cache[k][j].valid = "1"

\* C16: no two valid lines of a set have the same count; so in a full set
\* exactly one line holds the smallest count, and the scan of lines 181-191
\* never has two candidates to choose between.
C16_DistinctRecency ==
    \A k \in DOMAIN cache :
        /\ \A i \in LineIdx, j \in LineIdx :
              (i # j /\ cache[k][i].valid = "1" /\ cache[k][j].valid = "1")
                  => cache[k][i].count # cache[k][j].count
        /\ (\A j \in LineIdx : cache[k][j].valid = "1")
              => Cardinality({j \in LineIdx :
                                cache[k][j].count = MinCount(cache[k])}) = 1

\* C16 witness: a full two-line set whose lines were hit and replaced, about
\* to choose a victim again.
C16_Witness ==
    /\ E = 2 /\ evict_cnt >= 1 /\ hit_cnt >= 2 /\ Len(log) < MaxCalls
    /\ \E k \in DOMAIN cache :
          /\ \A j \in LineIdx : cache[k][j].valid = "1"
          /\ cache[k][1].count < cache[k][0].count

-----------------------------------------------------------------------------
(* The classic LRU cache set: a list of at most E tags, the most recently   *)
(* used first.  It is the reference accessData is compared with, run on the *)
(* tags the log records for a set.                                          *)

Remove(list, tag) == SelectSeq(list, LAMBDA x : x # tag)

\* One access of the list: the list after it, what it was (hit, miss or
\* miss with eviction) and the tag it dropped.
LruAccess(list, tag) ==
    IF \E p \in 1..Len(list) : list[p] = tag
    THEN [list |-> <<tag>> \o Remove(list, tag),
          hit |-> 1, miss |-> 0, evict |-> 0, victims |-> {}]
    ELSE IF Len(list) < E
         THEN [list |-> <<tag>> \o list,
               hit |-> 0, miss |-> 1, evict |-> 0, victims |-> {}]
         ELSE [list |-> <<tag>> \o SubSeq(list, 1, Len(list) - 1),
               hit |-> 0, miss |-> 1, evict |-> 1,
               victims |-> {list[Len(list)]}]

\* The accesses es[1..n] run on an empty list: the result of the last one.
RECURSIVE LruRun(_, _)
LruRun(es, n) ==
    IF n = 0
    THEN [list |-> <<>>, hit |-> 0, miss |-> 0, evict |-> 0, victims |-> {}]
    ELSE LruAccess(LruRun(es, n - 1).list, es[n].addrTag)

\* The line of a set that holds a tag.
LineOf(set, tag) ==
    CHOOSE j \in DOMAIN set : set[j].valid = "1" /\ set[j].tag = tag

\* C17: accessData and the classic LRU list agree on every access sequence:
\* each access has the same outcome (hit, miss, miss with eviction, and the
\* tag evicted), each set holds the tags of its list, and its valid lines
\* ordered by count, largest first, are the list.
C17_EquivalentToLRU ==
    \A k \in SetNums :
        LET sl   == SetLog(k)
            set  == cache[ValOf(k)]
            list == LruRun(sl, Len(sl)).list
        IN  /\ \A i \in 1..Len(sl) :
                  LET r == LruRun(sl, i)
                  IN  /\ sl[i].hit = r.hit /\ sl[i].miss = r.miss
                      /\ sl[i].evict = r.evict /\ sl[i].victims = r.victims
            /\ {set[j].tag : j \in {x \in LineIdx : set[x].valid = "1"}}
                  = {list[p] : p \in 1..Len(list)}
            /\ Cardinality({x \in LineIdx : set[x].valid = "1"}) = Len(list)
            /\ \A p \in 1..Len(list), q \in 1..Len(list) :
                  p < q => set[LineOf(set, list[p])].count
                              > set[LineOf(set, list[q])].count

\* C17 witness: a two-line set that has seen three tags, with a hit before
\* the eviction, so that the least recently used line is not the oldest.
C17_Witness ==
    /\ E = 2
    /\ \E k \in SetNums :
          LET sl == SetLog(k)
          IN  /\ Len(sl) >= 5
              /\ sl[1].addrTag # sl[2].addrTag
              /\ sl[3].addrTag = sl[1].addrTag
              /\ sl[4].evict = 1
              /\ sl[5].hit = 1

\* The valid lines of the cache, as (set, line) pairs.
ValidLines ==
    {p \in (DOMAIN cache) \X LineIdx : cache[p[1]][p[2]].valid = "1"}

\* C18: miss_cnt - evict_cnt is the number of valid lines of the cache, and
\* so at most S * E.
C18_ValidLineCount ==
    /\ miss_cnt - evict_cnt = Cardinality(ValidLines)
    /\ miss_cnt - evict_cnt <= S * E

\* C18 witness: a cache of four sets, after evictions, three lines valid and
\* one not.
C18_Witness ==
    /\ s = 2 /\ E = 1 /\ evict_cnt >= 2
    /\ Cardinality(ValidLines) = 3

\* C19: a call whose tag no valid line of the target set holds is a miss,
\* whatever tags the lines that are not valid store; so the first access of
\* a run is a miss also when its tag is 0, the tag initCache stores.
C19_InvalidNeverHits ==
    /\ [][(OneCall /\ ~\E j \in LineIdx :
                OldSet[j].valid = "1" /\ OldSet[j].tag = decoded'.addrTag)
            => hit_cnt' = hit_cnt /\ miss_cnt' = miss_cnt + 1]_vars
    /\ []((Len(log) >= 1 /\ log[1].addrTag = {}) => IsMiss(log[1]))

\* C19 witness: in a two-line set line 0 holds another tag and line 1 is
\* not valid and stores tag 0; the access with tag 0 has missed there, as did
\* the first access of the run.
C19_Witness ==
    /\ E = 2 /\ Len(log) = 2
    /\ log[1].addrTag # {} /\ log[2].addrTag = {}
    /\ log[1].setNum = log[2].setNum
    /\ log[1].miss = 1 /\ log[2].miss = 1 /\ log[2].hit = 0

-----------------------------------------------------------------------------
(* The locals of accessData *)

\* C20: after a hit, when the hit loop has updated the matching line,
\* mostRecent is the largest and leastRecent the smallest count of the E
\* lines of the target set.
C20_LocalsAfterHit ==
    (Len(log) >= 1 /\ log[Len(log)].hit = 1) =>
        LET e   == log[Len(log)]
            set == cache[ValOf(e.setNum)]
        IN  /\ e.mostRecent = MaxCount(set)
            /\ e.leastRecent = MinCount(set)

====
